---- MODULE Spec2Model ----
(***************************************************************************)
(* State-machine model of debo-6186/intelligent-reminder: the call-record  *)
(* store (repositories.py), the status callback and the media-stream       *)
(* handler (api.py) and the relay session ReminderService (services.py).   *)
(***************************************************************************)
EXTENDS Integers, Sequences, FiniteSets, TLC

\* ------------------------------------------------------------- bounds ----
MaxNow == 1          \* clock ticks modelled (so dates 0..MaxNow)
MaxCallbacks == 2    \* status-callback requests modelled
MaxCreates == 2      \* create_call runs modelled
MaxServices == 2     \* ReminderService objects one connection may create
MaxStarts == 1       \* start events of a connection that follows the protocol
MaxInbox == 1        \* carrier messages waiting in the telephony socket
MaxBatches == 1      \* runs of update_recent_call_records
MaxPayloadLen == 4   \* characters of a media payload a client may send

\* ------------------------------------------------------ value domains ----
None == "None"                  \* Python None / a missing form field
Absent == "absent"              \* attribute not present on a stored item

Numbers == {"+6598765432"}
Agents == {"agent1"}
ConvIds == {"conv1", "conv2"}
Prompts == {"prompt1"}
Times == {"09:00"}
Countries == {"SG"}
Days == 0..MaxNow

\* Twilio's call statuses (the values of the CallStatus form field).
CallStatuses ==
    {"initiated", "ringing", "answered", "completed",
     "busy", "no-answer", "failed", "canceled"}

\* services.py:255, the statuses handle_call_status writes.
WrittenStatuses == {"busy", "no-answer", "failed", "canceled"}

\* app/modules/constants.py is not part of the sources; the two entries the
\* code reads are the stage names of the data model.
CALL_STATUS == [call_initiated |-> "initiated", call_failed |-> "failed"]

TerminalStages == {"completed", "busy", "no-answer", "failed", "canceled"}

\* ------------------------------------------------------------ records ----
\* Primary key: PK = "AICalling#<agent_id>#<date>", SK = destination.
Keys == (Agents \cup {None}) \X Days \X Numbers

PartitionKey(agent_id, date, number) == <<agent_id, date, number>>

\* An item with no attribute but its key. created_at_utc is the ISO timestamp,
\* held as <<instant>>, and <<>> when the attribute is absent.
EmptyItem ==
    [stage |-> Absent, conversation_id |-> Absent, GSI1PK |-> Absent,
     created_at_utc |-> <<>>, prompt |-> Absent, time |-> Absent,
     call_successful |-> <<>>]

\* The table with the item under key replaced or added.
PutItem(st, key, item) ==
    [k \in DOMAIN st \cup {key} |-> IF k = key THEN item ELSE st[k]]

VARIABLES
    now,         \* datetime.now(): the instant, a tick counter
    today,       \* datetime.now().strftime("%Y-%m-%d"): the date
    store,       \* the DynamoDB table: primary key -> item
    placed,      \* keys of the records for which create_call dialled
    creates,     \* create_call runs so far
    callback,    \* the last status-callback request, what update_item did
                 \* for it, and its response
    cbCount,     \* status-callback requests so far
    tel,         \* the carrier's media-stream websocket: none, open, closed
    inbox,       \* carrier messages received by the socket, not yet read
    starts,      \* start events the carrier has sent
    carrierDone, \* the carrier has closed its side of the media stream
    hpc,         \* where outbound_media_stream is
    hexc,        \* the exception outbound_media_stream will end with
    nsvc,        \* ReminderService objects created; stream_service is the last
    svc,         \* the ReminderService objects
    configSent,  \* per service, whether its initial config has been sent
    io,          \* the last step: the frame it read and the frames it sent
    cl,          \* per caller of cleanup(), where that call is
    recon        \* update_recent_call_records: where it is, the records it
                 \* read and has not handled yet, the runs so far

recVars == <<now, today, store, placed, creates, callback, cbCount>>
carrierVars == <<tel, inbox, starts, carrierDone>>
sesVars == <<hpc, hexc, nsvc, svc, configSent, cl>>
vars == <<now, today, store, placed, creates, callback, cbCount,
          tel, inbox, starts, carrierDone,
          hpc, hexc, nsvc, svc, configSent, cl, io, recon>>

\* --------------------------------------------------- record store ----
\* repositories.py create_ai_call_item: put_item replaces any item under the key.
create_ai_call_item(st, time, calling_to, prompt, agent_id, status) ==
    PutItem(st, PartitionKey(agent_id, today, calling_to),
        [stage |-> status, conversation_id |-> "nil", GSI1PK |-> "nil",
         created_at_utc |-> <<now>>, prompt |-> prompt, time |-> time,
         call_successful |-> <<>>])

\* The item update_item works on: DynamoDB creates it when the key is new.
ItemAt(st, key) == IF key \in DOMAIN st THEN st[key] ELSE EmptyItem

\* An update that leaves the index key alone.
WithIndexKey_Forgotten(updates) == updates

\* repositories.py:64-65: an update of conversation_id also sets GSI1PK.
WithIndexKey(updates) ==
    IF "conversation_id" \in DOMAIN updates
    THEN [f \in DOMAIN updates \cup {"GSI1PK"} |->
            IF f = "GSI1PK" THEN updates["conversation_id"] ELSE updates[f]]
    ELSE updates

\* repositories.py update_ai_call_item: SET of the given fields on the item
\* keyed by (agent_id, today's date, destination).
update_ai_call_item(st, destination_number, agent_id, updates) ==
    LET key == PartitionKey(agent_id, today, destination_number)
        item == ItemAt(st, key)
        sets == WithIndexKey(updates)
    IN PutItem(st, key,
            [f \in DOMAIN item |-> IF f \in DOMAIN sets THEN sets[f] ELSE item[f]])

\* The process's event loop: keep_alive stops yielding once its websocket is
\* closed (services.py:263-265), and then no other coroutine runs.
\* update_recent_call_records is a coroutine without an await
\* (services.py:425-441): while it runs, no other coroutine does.
Blocked ==
    \/ \E s \in 1..nsvc : svc[s].keep_alive = "spinning"
    \/ recon.pc = "running"

\* ------------------------------------------------------ frames sent ----
NoFrame == [src |-> "none", service |-> 0, msg |-> [kind |-> "none"]]

\* A frame read from the carrier's websocket (api.py:180) ...
FromTwilio(m) == [src |-> "twilio", service |-> 0, msg |-> m]

\* ... and from the Voice-AI websocket of service s (services.py:179, 284).
FromElevenLabs(s, m) == [src |-> "eleven_labs", service |-> s, msg |-> m]

\* A frame service s sent on the carrier's websocket
\* (self.websocket.send_text) ...
ToTwilio(s, frame) == [link |-> "twilio", service |-> s, frame |-> frame]

\* ... and on the Voice-AI websocket of service s (self.eleven_labs_ws.send).
ToElevenLabs(s, frame) == [link |-> "eleven_labs", service |-> s, frame |-> frame]

\* What a step did: the frame (or answer) it read, the frames it sent, and
\* the exception it raised to its caller ("none": it returned).
Did(read, sent) == [in |-> read, out |-> sent, exc |-> "none"]

Threw(read, exc) == [in |-> read, out |-> <<>>, exc |-> exc]

\* A step that reads no frame and sends none.
Quiet == Did(NoFrame, <<>>)

\* The answer of a call that is no websocket frame: the signed-URL request
\* (services.py:276), websockets.connect (280), the send of the initial
\* config (300).
Answer(call, s, outcome) == [src |-> call, service |-> s, msg |-> [kind |-> outcome]]

\* ----------------------------------------------------- create_call ----
\* services.py create_call: the record is written, then Twilio dials.
CreateCall(calling_to, agent_id, prompt, time, dialled) ==
    /\ ~Blocked
    /\ creates < MaxCreates
    /\ creates' = creates + 1
    /\ store' = create_ai_call_item(store, time, calling_to, prompt, agent_id,
                                   CALL_STATUS.call_initiated)
    /\ placed' = IF dialled
                 THEN placed \cup {PartitionKey(agent_id, today, calling_to)}
                 ELSE placed
    /\ io' = Quiet
    /\ UNCHANGED <<now, today, callback, cbCount>>
    /\ UNCHANGED carrierVars
    /\ UNCHANGED sesVars
    /\ UNCHANGED recon

\* ------------------------------------------------ status callback ----
\* What table.update_item may do: succeed, or raise botocore's ClientError
\* (an Exception) or a builtin ConnectionError.
StoreOutcomes == {"ok", "ClientError", "ConnectionError"}

\* services.py:258 and api.py:72, the exception classes both handlers catch.
CaughtByCallback == {"ValueError", "RuntimeError", "ConnectionError"}

\* services.py handle_call_status: the store after the call.
handle_call_status(st, to_number, status, agent_id) ==
    IF status \in WrittenStatuses /\ to_number # None
    THEN update_ai_call_item(st, to_number, agent_id, [stage |-> status])
    ELSE st

\* api.py outbound_call_status: the HTTP status of the response.
CallbackStatusCode(to_number, status, country_code, outcome) ==
    IF to_number = None \/ status = None \/ country_code = None THEN 400
    ELSE IF status \in WrittenStatuses /\ outcome # "ok"
                /\ outcome \notin CaughtByCallback
         THEN 500
         ELSE 200

OutboundCallStatus(to_number, status, country_code, agent_id, outcome) ==
    /\ ~Blocked
    /\ cbCount < MaxCallbacks
    /\ cbCount' = cbCount + 1
    /\ LET code == CallbackStatusCode(to_number, status, country_code, outcome)
       IN /\ callback' = [To |-> to_number, CallStatus |-> status,
                          ToCountry |-> country_code, agent_id |-> agent_id,
                          status_code |-> code,
                          store_result |->
                              IF code # 400 /\ status \in WrittenStatuses
                              THEN outcome ELSE "not_called"]
          /\ store' = IF code # 400 /\ outcome = "ok"
                      THEN handle_call_status(store, to_number, status, agent_id)
                      ELSE store
    /\ io' = Quiet
    /\ UNCHANGED <<now, today, placed, creates>>
    /\ UNCHANGED carrierVars
    /\ UNCHANGED sesVars
    /\ UNCHANGED recon

\* ------------------------------------------------------------ time ----
\* Time passes; midnight (UTC) may or may not fall in the interval.
Tick ==
    /\ now < MaxNow
    /\ now' = now + 1
    /\ today' \in {today, today + 1}
    /\ io' = Quiet
    /\ UNCHANGED <<store, placed, creates, callback, cbCount>>
    /\ UNCHANGED carrierVars
    /\ UNCHANGED sesVars
    /\ UNCHANGED recon

\* ------------------------------------------- carrier media stream ----
StreamSids == {"MZ1"}

\* --------------------------------------------------------- base64 ----
\* A payload is text: a sequence of characters. The base64 alphabet of
\* RFC 4648, which Python's base64 module uses; a character's value is its
\* place in it.
B64Alphabet ==
    <<"A", "B", "C", "D", "E", "F", "G", "H", "I", "J", "K", "L", "M",
      "N", "O", "P", "Q", "R", "S", "T", "U", "V", "W", "X", "Y", "Z",
      "a", "b", "c", "d", "e", "f", "g", "h", "i", "j", "k", "l", "m",
      "n", "o", "p", "q", "r", "s", "t", "u", "v", "w", "x", "y", "z",
      "0", "1", "2", "3", "4", "5", "6", "7", "8", "9", "+", "/">>

B64Pad == "="

IsB64Digit(ch) == \E i \in DOMAIN B64Alphabet : B64Alphabet[i] = ch

B64Value(ch) == (CHOOSE i \in DOMAIN B64Alphabet : B64Alphabet[i] = ch) - 1

B64Digit(v) == B64Alphabet[v + 1]

\* base64.b64decode(payload) as services.py:332 calls it (validate=False):
\* characters outside the alphabet are skipped, every four digits give three
\* bytes, the bits left over in front of the padding are dropped, whatever
\* follows a complete padding is not read, and text that ends inside a group
\* of four is an error (binascii.Error). quad_pos is the place in the group,
\* leftchar the bits not yet written, pads the padding characters seen.
RECURSIVE a2b_base64(_, _, _, _, _)
a2b_base64(text, quad_pos, leftchar, pads, bytes) ==
    IF text = <<>>
    THEN [ok |-> quad_pos = 0, bytes |-> bytes]
    ELSE LET ch == Head(text)
             rest == Tail(text)
         IN IF ch = B64Pad
            THEN IF quad_pos >= 2 /\ quad_pos + pads + 1 >= 4
                 THEN [ok |-> TRUE, bytes |-> bytes]
                 ELSE a2b_base64(rest, quad_pos, leftchar,
                                 IF quad_pos >= 2 THEN pads + 1 ELSE pads, bytes)
            ELSE IF ~IsB64Digit(ch)
            THEN a2b_base64(rest, quad_pos, leftchar, pads, bytes)
            ELSE LET v == B64Value(ch)
                 IN CASE quad_pos = 0 ->
                             a2b_base64(rest, 1, v, 0, bytes)
                      [] quad_pos = 1 ->
                             a2b_base64(rest, 2, v % 16, 0,
                                        Append(bytes, leftchar * 4 + v \div 16))
                      [] quad_pos = 2 ->
                             a2b_base64(rest, 3, v % 4, 0,
                                        Append(bytes, leftchar * 16 + v \div 4))
                      [] OTHER ->
                             a2b_base64(rest, 0, 0, 0,
                                        Append(bytes, leftchar * 64 + v))

b64decode(text) == a2b_base64(text, 0, 0, 0, <<>>)

\* base64.b64encode(bytes).decode(): every three bytes give four digits, and
\* the last one or two bytes a padded group.
RECURSIVE b64encode(_)
b64encode(bytes) ==
    CASE Len(bytes) = 0 -> <<>>
      [] Len(bytes) = 1 ->
            <<B64Digit(bytes[1] \div 4), B64Digit((bytes[1] % 4) * 16),
              B64Pad, B64Pad>>
      [] Len(bytes) = 2 ->
            <<B64Digit(bytes[1] \div 4),
              B64Digit((bytes[1] % 4) * 16 + bytes[2] \div 16),
              B64Digit((bytes[2] % 16) * 4), B64Pad>>
      [] OTHER ->
            <<B64Digit(bytes[1] \div 4),
              B64Digit((bytes[1] % 4) * 16 + bytes[2] \div 16),
              B64Digit((bytes[2] % 16) * 4 + bytes[3] \div 64),
              B64Digit(bytes[3] % 64)>>
            \o b64encode(SubSeq(bytes, 4, Len(bytes)))

\* The media payload of the carrier: base64 audio from the caller ("cGF5").
Payloads == {<<"c", "G", "F", "5">>}

\* The characters of the payloads any client of the media-stream endpoint
\* may send, and those payloads.
PayloadChars == {"Y", "Q", "R", "=", "\n"}

AnyPayloads ==
    UNION {[1..n -> PayloadChars] : n \in 0..MaxPayloadLen}

\* The Voice-AI link of service s is Active: open, with the metadata
\* handshake done (a conversation id received).
LinkActive(s) ==
    /\ s > 0
    /\ svc[s].eleven_labs_ws = "open"
    /\ svc[s].conversation_id # None

\* The messages the carrier sends on the media stream. A media message is
\* marked early when the carrier sent it while the current Voice-AI link was
\* not Active (the mark is the carrier's; the code never reads it).
MediaMessages(payloads) ==
    [event : {"media"}, payload : payloads, early : {~LinkActive(nsvc)}]

CarrierMessages ==
    [event : {"start"}, streamSid : StreamSids, calling_to : Numbers,
     agent_id : Agents]
    \cup MediaMessages(Payloads)
    \cup [event : {"stop"}]

NoService ==
    [to_number |-> None, agent_id |-> None, stream_sid |-> None,
     eleven_labs_ws |-> "none", eleven_labs_task |-> "none",
     conversation_id |-> None, keep_alive |-> "none"]

\* services.py ReminderService.__init__ as api.py:190-194 calls it; agent_id
\* is custom_parameters["agent_id"], which setup_connection reads.
NewService(m) ==
    [NoService EXCEPT !.to_number = m.calling_to, !.agent_id = m.agent_id,
                      !.stream_sid = m.streamSid]

\* api.py:174 websocket.accept()
Accept ==
    /\ ~Blocked
    /\ tel = "none"
    /\ tel' = "open"
    /\ hpc' = "loop"
    /\ io' = Quiet
    /\ UNCHANGED recVars
    /\ UNCHANGED <<inbox, starts, carrierDone>>
    /\ UNCHANGED <<hexc, nsvc, svc, configSent, cl>>
    /\ UNCHANGED recon

\* The carrier writes a message; it waits in the socket until iter_text
\* (api.py:180) reads it. The carrier sends at most maxStarts start events.
CarrierSend(m, maxStarts) ==
    /\ tel = "open"
    /\ ~carrierDone
    /\ Len(inbox) < MaxInbox
    /\ m.event = "start" => starts < maxStarts
    /\ starts' = IF m.event = "start" THEN starts + 1 ELSE starts
    /\ inbox' = Append(inbox, m)
    /\ io' = Quiet
    /\ UNCHANGED recVars
    /\ UNCHANGED <<tel, carrierDone>>
    /\ UNCHANGED sesVars
    /\ UNCHANGED recon

\* The carrier closes the media stream.
CarrierHangup ==
    /\ tel = "open"
    /\ ~carrierDone
    /\ carrierDone' = TRUE
    /\ io' = Quiet
    /\ UNCHANGED recVars
    /\ UNCHANGED <<tel, inbox, starts>>
    /\ UNCHANGED sesVars
    /\ UNCHANGED recon

\* api.py:205-210, the exceptions the read loop logs and goes on from.
Swallowed == {"JSONDecodeError", "KeyError", "RuntimeError", "ConnectionError"}

\* An exception raised while a message is handled (api.py:181-214): swallowed,
\* or it ends the loop and the finally block runs cleanup.
Raise(exc) ==
    IF exc \in Swallowed
    THEN hpc' = "loop" /\ hexc' = hexc
    ELSE hpc' = "cleanup" /\ hexc' = exc

\* api.py:180, iter_text ends when the carrier has closed the connection.
LoopEnd ==
    /\ ~Blocked
    /\ hpc = "loop"
    /\ inbox = <<>>
    /\ carrierDone
    /\ hpc' = "cleanup"
    /\ io' = Quiet
    /\ UNCHANGED recVars
    /\ UNCHANGED carrierVars
    /\ UNCHANGED <<hexc, nsvc, svc, configSent, cl>>
    /\ UNCHANGED recon

\* api.py:185-194, a start event: a new ReminderService becomes stream_service.
HandleStart ==
    /\ ~Blocked
    /\ hpc = "loop"
    /\ inbox # <<>>
    /\ Head(inbox).event = "start"
    /\ nsvc < MaxServices
    /\ inbox' = Tail(inbox)
    /\ nsvc' = nsvc + 1
    /\ svc' = [svc EXCEPT ![nsvc + 1] = NewService(Head(inbox))]
    /\ hpc' = "get_signed_url"
    /\ io' = Did(FromTwilio(Head(inbox)), <<>>)
    /\ UNCHANGED recVars
    /\ UNCHANGED <<tel, starts, carrierDone>>
    /\ UNCHANGED <<hexc, configSent, cl>>
    /\ UNCHANGED recon

\* services.py handle_media: what decoding the payload (332) and sending
\* the chunk (333) do; the send by the state of eleven_labs_ws (None:
\* AttributeError; closed: ConnectionClosed).
MediaOutcome(s, payload) ==
    CASE ~b64decode(payload).ok -> "binascii.Error"
      [] svc[s].eleven_labs_ws = "none" -> "AttributeError"
      [] svc[s].eleven_labs_ws = "open" -> "ok"
      [] OTHER -> "WebSocketException"

\* services.py:332, the payload decoded and encoded again.
UserAudioChunk(payload) ==
    [user_audio_chunk |-> b64encode(b64decode(payload).bytes)]

\* services.py handle_media: the frames sent on the Voice-AI websocket.
handle_media(s, payload) ==
    IF MediaOutcome(s, payload) = "ok"
    THEN <<ToElevenLabs(s, UserAudioChunk(payload))>>
    ELSE <<>>

\* api.py:198-199, a media event.
HandleMedia ==
    /\ ~Blocked
    /\ hpc = "loop"
    /\ inbox # <<>>
    /\ Head(inbox).event = "media"
    /\ inbox' = Tail(inbox)
    /\ IF nsvc = 0
       THEN /\ io' = Did(FromTwilio(Head(inbox)), <<>>)
            /\ UNCHANGED <<hpc, hexc>>
       ELSE IF MediaOutcome(nsvc, Head(inbox).payload) = "ok"
            THEN /\ io' = Did(FromTwilio(Head(inbox)),
                              handle_media(nsvc, Head(inbox).payload))
                 /\ UNCHANGED <<hpc, hexc>>
            ELSE /\ io' = Threw(FromTwilio(Head(inbox)),
                                MediaOutcome(nsvc, Head(inbox).payload))
                 /\ Raise(MediaOutcome(nsvc, Head(inbox).payload))
    /\ UNCHANGED recVars
    /\ UNCHANGED <<tel, starts, carrierDone>>
    /\ UNCHANGED <<nsvc, svc, configSent, cl>>
    /\ UNCHANGED recon

\* api.py:201-203, a stop event.
HandleStop ==
    /\ ~Blocked
    /\ hpc = "loop"
    /\ inbox # <<>>
    /\ Head(inbox).event = "stop"
    /\ inbox' = Tail(inbox)
    /\ hpc' = "cleanup"
    /\ io' = Did(FromTwilio(Head(inbox)), <<>>)
    /\ UNCHANGED recVars
    /\ UNCHANGED <<tel, starts, carrierDone>>
    /\ UNCHANGED <<hexc, nsvc, svc, configSent, cl>>
    /\ UNCHANGED recon

\* Messages on the media stream that are not the three the handler knows:
\* text that is no JSON, JSON that is no object (an array, a string, a
\* number, null), an object without "event", a media event whose "media"
\* has no "payload" or is no object, and an event without a branch
\* (Twilio's "connected").
OtherMessages ==
    [event : {"not_json", "not_object", "no_event", "media_no_payload",
              "media_not_object", "connected"}]

\* api.py:182-203, what handling such a message raises: json.loads raises
\* JSONDecodeError, msg["event"] KeyError on an object and TypeError on
\* anything else; msg["media"]["payload"] is evaluated only when
\* stream_service is set.
EnvelopeError(m, has_service) ==
    CASE m.event = "not_json" -> "JSONDecodeError"
      [] m.event = "not_object" -> "TypeError"
      [] m.event = "no_event" -> "KeyError"
      [] m.event = "media_no_payload" /\ has_service -> "KeyError"
      [] m.event = "media_not_object" /\ has_service -> "TypeError"
      [] OTHER -> "none"

\* api.py:181-210, a message of another kind.
HandleOther ==
    /\ ~Blocked
    /\ hpc = "loop"
    /\ inbox # <<>>
    /\ Head(inbox) \in OtherMessages
    /\ inbox' = Tail(inbox)
    /\ LET exc == EnvelopeError(Head(inbox), nsvc > 0)
       IN IF exc = "none"
          THEN /\ io' = Did(FromTwilio(Head(inbox)), <<>>)
               /\ UNCHANGED <<hpc, hexc>>
          ELSE /\ io' = Threw(FromTwilio(Head(inbox)), exc)
               /\ Raise(exc)
    /\ UNCHANGED recVars
    /\ UNCHANGED <<tel, starts, carrierDone>>
    /\ UNCHANGED <<nsvc, svc, configSent, cl>>
    /\ UNCHANGED recon

\* ------------------------------------------------ setup_connection ----
\* services.py:304-311: the record is marked failed, then the error is
\* re-raised into the read loop (api.py:195).
SetupFailed(read, exc) ==
    /\ store' = update_ai_call_item(store, svc[nsvc].to_number, svc[nsvc].agent_id,
                                    [stage |-> CALL_STATUS.call_failed])
    /\ io' = Threw(read, exc)
    /\ Raise(exc)

\* services.py get_signed_url: the HTTP request fails (httpx.HTTPError), the
\* answer has no signed_url (KeyError), or a URL comes back.
SignedUrlOutcomes == {"ok", "HTTPError", "KeyError"}

GetSignedUrl(outcome) ==
    /\ ~Blocked
    /\ hpc = "get_signed_url"
    /\ IF outcome = "ok"
       THEN /\ hpc' = "connect"
            /\ io' = Did(Answer("get_signed_url", nsvc, outcome), <<>>)
            /\ UNCHANGED <<hexc, store>>
       ELSE SetupFailed(Answer("get_signed_url", nsvc, outcome), outcome)
    /\ UNCHANGED <<now, today, placed, creates, callback, cbCount>>
    /\ UNCHANGED carrierVars
    /\ UNCHANGED <<nsvc, svc, configSent, cl>>
    /\ UNCHANGED recon

\* services.py:280 websockets.connect: the handshake is refused
\* (WebSocketException), the TCP connection is (ConnectionRefusedError, a
\* ConnectionError), or the link opens.
ConnectOutcomes == {"ok", "WebSocketException", "ConnectionError"}

Connect(outcome) ==
    /\ ~Blocked
    /\ hpc = "connect"
    /\ IF outcome = "ok"
       THEN /\ svc' = [svc EXCEPT ![nsvc].eleven_labs_ws = "open"]
            /\ hpc' = "recv_metadata"
            /\ io' = Did(Answer("connect", nsvc, outcome), <<>>)
            /\ UNCHANGED <<hexc, store>>
       ELSE /\ SetupFailed(Answer("connect", nsvc, outcome), outcome)
            /\ UNCHANGED svc
    /\ UNCHANGED <<now, today, placed, creates, callback, cbCount>>
    /\ UNCHANGED carrierVars
    /\ UNCHANGED <<nsvc, configSent, cl>>
    /\ UNCHANGED recon

\* The first frame the Voice-AI service may send (or its closing instead).
FirstMessages ==
    [kind : {"conversation_initiation_metadata"}, conversation_id : ConvIds]
    \cup [kind : {"other_type", "not_json", "no_type", "no_conversation_id",
                  "connection_closed"}]

\* services.py:284-289: what reading and parsing the first frame raises.
FirstMessageError(m) ==
    CASE m.kind = "not_json" -> "JSONDecodeError"
      [] m.kind \in {"no_type", "no_conversation_id"} -> "KeyError"
      [] m.kind = "connection_closed" -> "WebSocketException"
      [] OTHER -> "none"

\* services.py:284-294
RecvMetadata(m) ==
    /\ ~Blocked
    /\ hpc = "recv_metadata"
    /\ svc[nsvc].eleven_labs_ws # "open" => m.kind = "connection_closed"
    /\ IF FirstMessageError(m) # "none"
       THEN /\ svc' = [svc EXCEPT ![nsvc].eleven_labs_ws =
                          IF m.kind = "connection_closed" THEN "aborted" ELSE @]
            /\ SetupFailed(FromElevenLabs(nsvc, m), FirstMessageError(m))
       ELSE /\ hpc' = "send_config"
            /\ hexc' = hexc
            /\ io' = Did(FromElevenLabs(nsvc, m), <<>>)
            /\ IF m.kind = "conversation_initiation_metadata"
               THEN /\ svc' = [svc EXCEPT ![nsvc].conversation_id = m.conversation_id]
                    /\ store' = update_ai_call_item(store, svc[nsvc].to_number,
                                    svc[nsvc].agent_id,
                                    [conversation_id |-> m.conversation_id])
               ELSE UNCHANGED <<svc, store>>
    /\ UNCHANGED <<now, today, placed, creates, callback, cbCount>>
    /\ UNCHANGED carrierVars
    /\ UNCHANGED <<nsvc, configSent, cl>>
    /\ UNCHANGED recon

\* services.py:315-323
InitialConfig == [type |-> "conversation_initiation_client_data"]

\* services.py:300-302 and api.py:196: the initial config is sent, the
\* dispatch task and the keep_alive task are created; or the send finds the
\* link closed by the remote side.
SendConfig ==
    /\ ~Blocked
    /\ hpc = "send_config"
    /\ IF svc[nsvc].eleven_labs_ws = "open"
       THEN /\ io' = Did(NoFrame, <<ToElevenLabs(nsvc, InitialConfig)>>)
            /\ configSent' = [configSent EXCEPT ![nsvc] = TRUE]
            /\ svc' = [svc EXCEPT ![nsvc].eleven_labs_task = "running",
                                  ![nsvc].keep_alive = "sleeping"]
            /\ hpc' = "loop"
            /\ UNCHANGED <<hexc, store>>
       ELSE /\ SetupFailed(Answer("send_initial_config", nsvc, "WebSocketException"),
                           "WebSocketException")
            /\ UNCHANGED <<svc, configSent>>
    /\ UNCHANGED <<now, today, placed, creates, callback, cbCount>>
    /\ UNCHANGED carrierVars
    /\ UNCHANGED <<nsvc, cl>>
    /\ UNCHANGED recon

\* ----------------------------------- handle_eleven_labs_messages ----
AudioPayloads == {"YQ=="}           \* base64 audio from the agent
EventIds == {0, 7}                  \* ping_event.event_id, an integer

\* The frames the Voice-AI service may send once the session runs.
\* audio_base_64 = None: the key is missing; has_event_id = FALSE likewise.
AiMessages ==
    [kind : {"audio"}, audio_base_64 : AudioPayloads \cup {"", None}]
    \cup [kind : {"ping"}, has_event_id : BOOLEAN, event_id : EventIds]
    \cup [kind : {"conversation_initiation_metadata"}, conversation_id : ConvIds]
    \cup [kind : {"audio_without_event", "audio_event_not_object", "interruption",
                  "error", "conversation_started", "unknown_type",
                  "not_json", "not_object", "no_type"}]

\* Python's truth value of a string or None (services.py:217).
TruthyStr(v) == v # None /\ v # ""

\* Python's truth value of an integer (services.py:239).
TruthyInt(n) == n # 0

\* services.py:222
MediaFrame(stream_sid, payload) ==
    [event |-> "media", streamSid |-> stream_sid,
     media |-> [payload |-> payload]]

\* services.py:235
ClearFrame(stream_sid) == [event |-> "clear", streamId |-> stream_sid]

\* services.py:240
Pong(event_id) == [type |-> "pong", event_id |-> event_id]

\* A send on the carrier's websocket: after the websocket was closed it
\* raises RuntimeError, which services.py:209 and 230 log.
SendText(s, frame) == IF tel = "open" THEN <<ToTwilio(s, frame)>> ELSE <<>>

\* services.py _handle_ping: the frames sent.
handle_ping(s, m) ==
    IF m.has_event_id /\ TruthyInt(m.event_id)
    THEN <<ToElevenLabs(s, Pong(m.event_id))>>
    ELSE <<>>

\* services.py _handle_audio_message: the frames sent.
handle_audio_message(s, m) ==
    IF TruthyStr(m.audio_base_64)
    THEN SendText(s, MediaFrame(svc[s].stream_sid, m.audio_base_64))
    ELSE <<>>

\* services.py _handle_interruption: the frames sent.
handle_interruption(s) == SendText(s, ClearFrame(svc[s].stream_sid))

\* services.py _process_message, the handler table (195-205): the frames a
\* message makes the session send. Types without a handler, messages without
\* a type and frames that are no JSON send nothing.
process_message(s, m) ==
    CASE m.kind = "audio" -> handle_audio_message(s, m)
      [] m.kind = "interruption" -> handle_interruption(s)
      [] m.kind = "ping" -> handle_ping(s, m)
      [] OTHER -> <<>>

\* services.py:188-231: the exceptions no handler of the dispatch path
\* catches (AttributeError: msg or audio_event is not a JSON object).
DispatchError(m) ==
    IF m.kind \in {"not_object", "audio_event_not_object"}
    THEN "AttributeError"
    ELSE "none"

\* A dispatch loop that takes a later metadata message as setup_connection
\* takes the first: it adopts the id and writes it to the record.
Dispatch_AdoptingMetadata(s, m) ==
    /\ ~Blocked
    /\ svc[s].eleven_labs_task = "running"
    /\ svc[s].eleven_labs_ws = "open"
    /\ IF DispatchError(m) # "none"
       THEN /\ svc' = [svc EXCEPT ![s].eleven_labs_task = "failed"]
            /\ io' = Did(FromElevenLabs(s, m), <<>>)
            /\ UNCHANGED store
       ELSE /\ io' = Did(FromElevenLabs(s, m), process_message(s, m))
            /\ IF m.kind = "conversation_initiation_metadata"
               THEN /\ svc' = [svc EXCEPT ![s].conversation_id = m.conversation_id]
                    /\ store' = update_ai_call_item(store, svc[s].to_number,
                                    svc[s].agent_id,
                                    [conversation_id |-> m.conversation_id])
               ELSE UNCHANGED <<svc, store>>
    /\ UNCHANGED <<now, today, placed, creates, callback, cbCount>>
    /\ UNCHANGED carrierVars
    /\ UNCHANGED <<hpc, hexc, nsvc, configSent, cl>>
    /\ UNCHANGED recon

\* One turn of the dispatch loop (services.py:179-180) on a received frame.
Dispatch(s, m) ==
    /\ ~Blocked
    /\ svc[s].eleven_labs_task = "running"
    /\ svc[s].eleven_labs_ws = "open"
    /\ IF DispatchError(m) # "none"
       THEN /\ svc' = [svc EXCEPT ![s].eleven_labs_task = "failed"]
            /\ io' = Did(FromElevenLabs(s, m), <<>>)
       ELSE /\ io' = Did(FromElevenLabs(s, m), process_message(s, m))
            /\ UNCHANGED svc
    /\ UNCHANGED recVars
    /\ UNCHANGED carrierVars
    /\ UNCHANGED <<hpc, hexc, nsvc, configSent, cl>>
    /\ UNCHANGED recon

\* The Voice-AI service closes the connection: with a close frame ("closed")
\* or without ("aborted").
RemoteClose(s, how) ==
    /\ svc[s].eleven_labs_ws = "open"
    /\ svc' = [svc EXCEPT ![s].eleven_labs_ws = how]
    /\ io' = Quiet
    /\ UNCHANGED recVars
    /\ UNCHANGED carrierVars
    /\ UNCHANGED <<hpc, hexc, nsvc, configSent, cl>>
    /\ UNCHANGED recon

\* services.py:179-186: the async for ends when the connection has closed
\* normally, and raises ConnectionClosedError when it broke.
DispatchEnd(s) ==
    /\ ~Blocked
    /\ svc[s].eleven_labs_task = "running"
    /\ svc[s].eleven_labs_ws \in {"closed", "aborted"}
    /\ svc' = [svc EXCEPT ![s].eleven_labs_task =
                  IF svc[s].eleven_labs_ws = "closed" THEN "finished" ELSE "failed"]
    /\ io' = Quiet
    /\ UNCHANGED recVars
    /\ UNCHANGED carrierVars
    /\ UNCHANGED <<hpc, hexc, nsvc, configSent, cl>>
    /\ UNCHANGED recon

\* ------------------------------------------------------ keep_alive ----
\* services.py:266
KeepAlivePing == [type |-> "ping"]

\* services.py:263-271, one turn of the loop when the task is scheduled: a
\* ping and a sleep while the websocket is open; with the websocket closed the
\* loop has no await left, and the task never yields again.
KeepAlive(s) ==
    /\ ~Blocked
    /\ svc[s].keep_alive = "sleeping"
    /\ IF svc[s].eleven_labs_ws = "open"
       THEN /\ io' = Did(NoFrame, <<ToElevenLabs(s, KeepAlivePing)>>)
            /\ UNCHANGED svc
       ELSE /\ svc' = [svc EXCEPT ![s].keep_alive = "spinning"]
            /\ io' = Quiet
    /\ UNCHANGED recVars
    /\ UNCHANGED carrierVars
    /\ UNCHANGED <<hpc, hexc, nsvc, configSent, cl>>
    /\ UNCHANGED recon

\* --------------------------------------------------------- cleanup ----
\* Callers of cleanup(): 1 is the finally block of outbound_media_stream
\* (api.py:216-220), 2 is a second trigger of teardown on the same session.
Callers == {1, 2}

\* services.py:343-344, from "if self.eleven_labs_task": cancel() is requested
\* and the caller waits for the task.
CancelTask(c) ==
    IF svc[nsvc].eleven_labs_task = "none"
    THEN /\ cl' = [cl EXCEPT ![c] = "done"]
         /\ UNCHANGED svc
    ELSE /\ cl' = [cl EXCEPT ![c] = "await_task"]
         /\ svc' = [svc EXCEPT ![nsvc].eleven_labs_task =
                        IF @ = "running" THEN "cancelled" ELSE @]

\* services.py:338-344, cleanup() up to its first await: the websocket is
\* closed only when conversation_id is set.
cleanup(c) ==
    IF svc[nsvc].eleven_labs_ws = "none"
    THEN /\ cl' = [cl EXCEPT ![c] = "done"]
         /\ UNCHANGED svc
    ELSE IF svc[nsvc].conversation_id # None
         THEN /\ cl' = [cl EXCEPT ![c] = "closing"]
              /\ svc' = [svc EXCEPT ![nsvc].eleven_labs_ws =
                            IF @ = "open" THEN "closed" ELSE @]
         ELSE CancelTask(c)

\* api.py:216-219, the finally block.
HandlerCleanup ==
    /\ ~Blocked
    /\ hpc = "cleanup"
    /\ cl[1] = "idle"
    /\ IF nsvc = 0
       THEN cl' = [cl EXCEPT ![1] = "done"] /\ UNCHANGED svc
       ELSE cleanup(1)
    /\ io' = Quiet
    /\ UNCHANGED recVars
    /\ UNCHANGED carrierVars
    /\ UNCHANGED <<hpc, hexc, nsvc, configSent>>
    /\ UNCHANGED recon

\* Teardown of the session is triggered a second time.
SecondCleanup ==
    /\ ~Blocked
    /\ nsvc > 0
    /\ cl[1] # "idle"
    /\ cl[2] = "idle"
    /\ cleanup(2)
    /\ io' = Quiet
    /\ UNCHANGED recVars
    /\ UNCHANGED carrierVars
    /\ UNCHANGED <<hpc, hexc, nsvc, configSent>>
    /\ UNCHANGED recon

\* services.py:341, await eleven_labs_ws.close() returns.
CleanupClosed(c) ==
    /\ ~Blocked
    /\ cl[c] = "closing"
    /\ CancelTask(c)
    /\ io' = Quiet
    /\ UNCHANGED recVars
    /\ UNCHANGED carrierVars
    /\ UNCHANGED <<hpc, hexc, nsvc, configSent>>
    /\ UNCHANGED recon

\* services.py:345-348, await eleven_labs_task: CancelledError is passed over,
\* the exception of a failed task is raised out of cleanup().
CleanupAwaited(c) ==
    /\ ~Blocked
    /\ cl[c] = "await_task"
    /\ cl' = [cl EXCEPT ![c] =
                IF svc[nsvc].eleven_labs_task = "failed" THEN "raised" ELSE "done"]
    /\ io' = Quiet
    /\ UNCHANGED recVars
    /\ UNCHANGED carrierVars
    /\ UNCHANGED <<hpc, hexc, nsvc, svc, configSent>>
    /\ UNCHANGED recon

\* outbound_media_stream ends (api.py:212-220); the server then closes the
\* carrier's websocket.
HandlerEnd ==
    /\ ~Blocked
    /\ hpc = "cleanup"
    /\ cl[1] \in {"done", "raised"}
    /\ hpc' = IF hexc # "none" \/ cl[1] = "raised" THEN "raised" ELSE "returned"
    /\ tel' = "closed"
    /\ io' = Quiet
    /\ UNCHANGED recVars
    /\ UNCHANGED <<inbox, starts, carrierDone>>
    /\ UNCHANGED <<hexc, nsvc, svc, configSent, cl>>
    /\ UNCHANGED recon

\* -------------------------------------- update_recent_call_records ----
\* repositories.py get_recent_calls: the scan keeps the items whose
\* created_at_utc lies in the window of the last 200 minutes
\* (services.py:427); an item without the attribute is not kept. A tick of
\* the clock is longer than the window: the items kept are those of the
\* current tick.
get_recent_calls(st) ==
    {k \in DOMAIN st :
        /\ st[k].created_at_utc # <<>>
        /\ st[k].created_at_utc[1] = now}

\* services.py:427-430: the records as the scan returned them.
Scanned(st) ==
    {[key |-> k, conversation_id |-> st[k].conversation_id] :
        k \in get_recent_calls(st)}

\* services.py:431, the truth value of record.get("conversation_id"): the
\* attribute is there and not empty. The string "nil" is true.
TruthyAttr(v) == v # Absent /\ v # ""

\* services.py get_elevenlabs_conversation_analysis: the request fails
\* (caught, {} returned), the answer has no analysis ({}), or it has results.
AnalysisOutcomes == {"results", "no_analysis", "HTTPError"}

\* The dict get_elevenlabs_conversation_analysis returns.
call_feedback(outcome) ==
    IF outcome = "results"
    THEN [call_successful |-> "success"]
    ELSE [f \in {} |-> ""]

\* repositories.py get_call_by_conversation_id: the keys of the items the
\* index holds under the id.
get_call_by_conversation_id(st, id) == {k \in DOMAIN st : st[k].GSI1PK = id}

\* What the query on the index may return: the items, or nothing yet (reads
\* of a global secondary index are eventually consistent).
IndexAnswers(st, id) == {get_call_by_conversation_id(st, id), {}}

\* repositories.py:131, the value update_call_criteria_record stores for a
\* field: the map {"S": str(value)}.
Stored(value) == <<"S", value>>

\* repositories.py:127-140: the item after SET of the fields.
update_call_criteria_record(st, key, updates) ==
    PutItem(st, key,
        [f \in DOMAIN st[key] |->
            IF f \in DOMAIN updates THEN Stored(updates[f]) ELSE st[key][f]])

\* What update_item does for update_call_criteria_record: without fields
\* the expression is "SET ", which DynamoDB rejects (ClientError).
CriteriaOutcome(updates, outcome) ==
    IF DOMAIN updates = {} THEN "ClientError" ELSE outcome

\* services.py:435, the exceptions caught per record.
CaughtPerRecord == {"HTTPError", "JSONDecodeError", "KeyError", "ValueError"}

\* What a turn of the loop read for a conversation id: the answer of the
\* analysis request, and whether the index query returned an item.
Analysis(id, outcome, found) ==
    [src |-> "analysis", service |-> 0,
     msg |-> [kind |-> outcome, conversation_id |-> id, matched |-> found # {}]]

\* services.py:425-428: the run starts and scans the table.
ReconcileStart ==
    /\ ~Blocked
    /\ recon.pc # "running"
    /\ recon.batches < MaxBatches
    /\ recon' = [pc |-> "running", todo |-> Scanned(store),
                 batches |-> recon.batches + 1]
    /\ io' = Quiet
    /\ UNCHANGED recVars
    /\ UNCHANGED carrierVars
    /\ UNCHANGED sesVars

\* services.py:430-438, one turn of the loop, for record r: outcome a of the
\* analysis request, answer found of the index, outcome o of update_item.
ReconcileRecord(r, a, found, o) ==
    /\ recon.pc = "running"
    /\ r \in recon.todo
    /\ r.conversation_id = "nil" => a = "HTTPError"
    /\ found \in IndexAnswers(store, r.conversation_id)
    /\ IF ~TruthyAttr(r.conversation_id)
       THEN /\ io' = Quiet
            /\ recon' = [recon EXCEPT !.todo = @ \ {r}]
            /\ UNCHANGED store
       ELSE IF found = {}
       THEN /\ io' = Did(Analysis(r.conversation_id, a, found), <<>>)
            /\ recon' = [recon EXCEPT !.todo = @ \ {r}]
            /\ UNCHANGED store
       ELSE \E k \in found :
              LET result == CriteriaOutcome(call_feedback(a), o)
              IN /\ store' = IF result = "ok"
                             THEN update_call_criteria_record(store, k,
                                                              call_feedback(a))
                             ELSE store
                 /\ IF result = "ok" \/ result \in CaughtPerRecord
                    THEN /\ io' = Did(Analysis(r.conversation_id, a, found), <<>>)
                         /\ recon' = [recon EXCEPT !.todo = @ \ {r}]
                    ELSE /\ io' = Threw(Analysis(r.conversation_id, a, found), result)
                         /\ recon' = [recon EXCEPT !.pc = "raised"]
    /\ UNCHANGED <<now, today, placed, creates, callback, cbCount>>
    /\ UNCHANGED carrierVars
    /\ UNCHANGED sesVars

\* services.py:440-441: all records handled, the run returns.
ReconcileEnd ==
    /\ recon.pc = "running"
    /\ recon.todo = {}
    /\ recon' = [recon EXCEPT !.pc = "returned"]
    /\ io' = Quiet
    /\ UNCHANGED recVars
    /\ UNCHANGED carrierVars
    /\ UNCHANGED sesVars

\* --------------------------------------------------- specification ----
Init ==
    /\ now = 0
    /\ today = 0
    /\ store = [k \in {} |-> EmptyItem]
    /\ placed = {}
    /\ creates = 0
    /\ callback = [To |-> None, CallStatus |-> None, ToCountry |-> None,
                   agent_id |-> None, status_code |-> 0,
                   store_result |-> "not_called"]
    /\ cbCount = 0
    /\ tel = "none"
    /\ inbox = <<>>
    /\ starts = 0
    /\ carrierDone = FALSE
    /\ hpc = "none"
    /\ hexc = "none"
    /\ nsvc = 0
    /\ svc = [s \in 1..MaxServices |-> NoService]
    /\ configSent = [s \in 1..MaxServices |-> FALSE]
    /\ cl = [c \in Callers |-> "idle"]
    /\ io = Quiet
    /\ recon = [pc |-> "idle", todo |-> {}, batches |-> 0]

Records ==
    \/ Tick
    \/ \E n \in Numbers, a \in Agents, p \in Prompts, t \in Times, d \in BOOLEAN :
          CreateCall(n, a, p, t, d)
    \/ \E n \in Numbers \cup {None}, st \in CallStatuses \cup {None},
          c \in Countries \cup {None}, a \in Agents \cup {None},
          o \in StoreOutcomes :
          OutboundCallStatus(n, st, c, a, o)

Carrier(maxStarts) ==
    \/ Accept
    \/ \E m \in CarrierMessages : CarrierSend(m, maxStarts)
    \/ CarrierHangup

Handler ==
    \/ LoopEnd
    \/ HandleStart
    \/ HandleMedia
    \/ HandleStop
    \/ \E o \in SignedUrlOutcomes : GetSignedUrl(o)
    \/ \E o \in ConnectOutcomes : Connect(o)
    \/ \E m \in FirstMessages : RecvMetadata(m)
    \/ SendConfig
    \/ HandlerCleanup
    \/ \E c \in Callers : CleanupClosed(c)
    \/ \E c \in Callers : CleanupAwaited(c)
    \/ HandlerEnd

Tasks ==
    \/ \E s \in 1..nsvc, m \in AiMessages : Dispatch(s, m)
    \/ \E s \in 1..nsvc, how \in {"closed", "aborted"} : RemoteClose(s, how)
    \/ \E s \in 1..nsvc : DispatchEnd(s)
    \/ \E s \in 1..nsvc : KeepAlive(s)

\* The call records alone: create_call, status callbacks, the clock.
RecordsSpec == Init /\ [][Records]_vars

\* One media-stream connection on which the carrier follows the protocol (one
\* start event): no create_call, no status callback.
SessionNext == Carrier(MaxStarts) \/ Handler \/ Tasks

SessionSpec == Init /\ [][SessionNext]_vars

\* The same under the scheduling of asyncio: a coroutine that can run is run
\* in the end (the handler, a dispatch loop whose websocket has closed, a
\* keep_alive whose sleep is over). Nothing makes the carrier or the
\* Voice-AI service send.
FairSessionSpec ==
    /\ SessionSpec
    /\ WF_vars(Handler)
    /\ WF_vars(\E s \in 1..nsvc : DispatchEnd(s))
    /\ WF_vars(\E s \in 1..nsvc : KeepAlive(s))

\* The same with teardown triggered a second time.
TeardownNext == SessionNext \/ SecondCleanup

TeardownSpec == Init /\ [][TeardownNext]_vars

\* One media-stream connection on which the carrier may repeat the start event.
RestartNext == Carrier(MaxServices) \/ Handler \/ Tasks

RestartSpec == Init /\ [][RestartNext]_vars

\* Calls placed by create_call and their media-stream connection, as days pass.
Placing ==
    \/ Tick
    \/ \E n \in Numbers, a \in Agents, p \in Prompts, t \in Times, d \in BOOLEAN :
          CreateCall(n, a, p, t, d)

CallNext == Placing \/ SessionNext

CallSpec == Init /\ [][CallNext]_vars

\* The asynchronous reconciliation of recent records.
Reconcile ==
    \/ ReconcileStart
    \/ \E r \in recon.todo, a \in AnalysisOutcomes,
          found \in SUBSET DOMAIN store, o \in StoreOutcomes :
          ReconcileRecord(r, a, found, o)
    \/ ReconcileEnd

\* A media-stream connection up to the end of setup_connection.
SetupNext ==
    \/ Accept
    \/ \E m \in CarrierMessages : m.event = "start" /\ CarrierSend(m, MaxStarts)
    \/ HandleStart
    \/ \E o \in SignedUrlOutcomes : GetSignedUrl(o)
    \/ \E o \in ConnectOutcomes : Connect(o)
    \/ \E m \in FirstMessages : RecvMetadata(m)
    \/ SendConfig

\* Calls placed, their sessions set up, and the records reconciled.
ReconcileNext == Placing \/ SetupNext \/ Reconcile

ReconcileSpec == Init /\ [][ReconcileNext]_vars

\* A media-stream connection set up, on which any client sends media.
MediaNext ==
    \/ SetupNext
    \/ \E m \in MediaMessages(AnyPayloads) : CarrierSend(m, MaxStarts)
    \/ HandleMedia

MediaSpec == Init /\ [][MediaNext]_vars

\* One media-stream connection on which the carrier's messages may be of
\* any kind.
Others ==
    \/ \E m \in OtherMessages : CarrierSend(m, MaxStarts)
    \/ HandleOther

EnvelopeNext == SessionNext \/ Others

EnvelopeSpec == Init /\ [][EnvelopeNext]_vars

\* The whole program.
Next ==
    \/ Records
    \/ RestartNext
    \/ \E m \in MediaMessages(AnyPayloads) : CarrierSend(m, MaxServices)
    \/ Others
    \/ Reconcile

Spec == Init /\ [][Next]_vars

\* ================================================================ C1 ====
\* C1: a record whose stage is failed, busy, no-answer or canceled keeps that
\* stage: no operation moves it to another stage or removes it.
C1_TerminalStageIsSink ==
    [][\A k \in DOMAIN store :
          store[k].stage \in TerminalStages
              => k \in DOMAIN store' /\ store'[k].stage = store[k].stage]_vars

\* ================================================================ C2 ====
\* The callback the carrier sends for a call create_call placed: the URL
\* registered at services.py:34 has no agent_id parameter.
FromCarrier(cb) ==
    /\ cb.To # None
    /\ cb.CallStatus # None
    /\ cb.ToCountry # None
    /\ cb.agent_id = None
    /\ \E k \in placed : k[3] = cb.To

\* C2: a status callback with To, CallStatus and ToCountry for a call placed
\* by create_call sets the stage of the record create_call made for that
\* destination to the reported status and answers 200; the same callback
\* again leaves the record as it is and answers 200.
C2_CallbackUpdatesPlacedRecord ==
    [][(cbCount' # cbCount /\ FromCarrier(callback'))
          => /\ \A k \in placed :
                  k[3] = callback'.To
                      => k \in DOMAIN store'
                         /\ store'[k].stage = callback'.CallStatus
             /\ callback'.status_code = 200
             /\ (callback' = callback => store' = store)]_vars

\* ================================================================ C3 ====
\* C3: the status callback answers 400 exactly when To, CallStatus or
\* ToCountry is missing, and 200 in every other case, whatever the record
\* store did.
C3_CallbackAnswers400Or200 ==
    cbCount > 0
        => callback.status_code =
              IF callback.To = None \/ callback.CallStatus = None
                    \/ callback.ToCountry = None
              THEN 400
              ELSE 200

\* ================================================================ C4 ====
\* An audio frame sent on either link: the caller's audio to the Voice-AI
\* service, or a media frame to the carrier.
IsAudioFrame(o) ==
    \/ o.link = "eleven_labs" /\ "user_audio_chunk" \in DOMAIN o.frame
    \/ o.link = "twilio" /\ o.frame.event = "media"

\* C4: the initial config goes out on the Voice-AI link only after the
\* metadata handshake gave the session its conversation_id, and before any
\* audio in either direction: no audio frame is forwarded on a session whose
\* initial config has not been sent.
C4_ConfigAfterHandshakeBeforeAudio ==
    [][/\ \A i \in DOMAIN io'.out :
             IsAudioFrame(io'.out[i]) => configSent[io'.out[i].service]
       /\ \A s \in 1..MaxServices :
             (configSent'[s] /\ ~configSent[s])
                 => svc[s].conversation_id # None]_vars

\* ================================================================ C5 ====
\* C5: a media event of the carrier is forwarded to the Voice-AI link only
\* if the link is Active then, and a media event the carrier sent before the
\* link was Active is dropped, never forwarded.
C5_MediaForwardedOnlyWhenActive ==
    [][\A i \in DOMAIN io'.out :
          (io'.out[i].link = "eleven_labs"
                /\ "user_audio_chunk" \in DOMAIN io'.out[i].frame)
              => /\ LinkActive(io'.out[i].service)
                 /\ ~io'.in.msg.early]_vars

\* ================================================================ C6 ====
\* A conversation_id attribute that holds an id.
IsSetId(v) == v \notin {"nil", Absent}

\* C6: a record's conversation_id is written at most once: once it holds an
\* id, no operation changes it to another value or back to unset.
C6_ConversationIdWrittenOnce ==
    [][\A k \in DOMAIN store :
          IsSetId(store[k].conversation_id)
              => /\ k \in DOMAIN store'
                 /\ store'[k].conversation_id = store[k].conversation_id]_vars

\* ================================================================ C7 ====
\* A metadata message the dispatch loop read on a session that already has
\* its conversation_id.
LaterMetadata(f, sessions) ==
    /\ f.src = "eleven_labs"
    /\ f.msg.kind = "conversation_initiation_metadata"
    /\ sessions[f.service].conversation_id # None

\* C7: a session's conversation_id, once set, does not change, and a later
\* metadata message on that session is turned away: the session and the
\* records stay as they were.
C7_SessionKeepsFirstConversationId ==
    [][/\ \A s \in 1..MaxServices :
             svc[s].conversation_id # None
                 => svc'[s].conversation_id = svc[s].conversation_id
       /\ LaterMetadata(io'.in, svc)
             => svc' = svc /\ store' = store /\ io'.out = <<>>]_vars

\* The dispatch loop has just read a metadata message with another id than
\* the one the session holds.
C7_SecondMetadataArrived ==
    /\ LaterMetadata(io.in, svc)
    /\ io.in.msg.conversation_id # svc[io.in.service].conversation_id

\* ================================================================ C8 ====
\* C8: teardown is idempotent: triggered twice on a session, each link is
\* closed once, the second trigger does nothing and none of them raises.
C8_TeardownTwiceClosesOnce ==
    (nsvc > 0 /\ \A c \in Callers : cl[c] \in {"done", "raised"})
        => /\ \A c \in Callers : cl[c] = "done"
           /\ svc[nsvc].eleven_labs_ws # "open"

\* ================================================================ C9 ====
\* C9: a ping of the Voice-AI service that carries an event id is answered
\* with one pong on the Voice-AI link that echoes the id, and has no other
\* effect.
C9_PingAnsweredWithPong ==
    [][(io'.in.src = "eleven_labs" /\ io'.in.msg.kind = "ping"
            /\ io'.in.msg.has_event_id)
          => /\ io'.out = <<ToElevenLabs(io'.in.service,
                                         Pong(io'.in.msg.event_id))>>
             /\ svc' = svc
             /\ store' = store]_vars

\* =============================================================== C10 ====
\* An audio message whose payload is missing or malformed.
BadAudio(m) ==
    \/ m.kind \in {"audio_without_event", "audio_event_not_object"}
    \/ m.kind = "audio" /\ ~TruthyStr(m.audio_base_64)

\* C10: an audio message of the Voice-AI service with a non-empty payload is
\* forwarded to the carrier once, as a media frame with the session's stream
\* id and the payload as received; one with a missing or malformed payload
\* is dropped and the dispatch loop goes on.
C10_AudioForwardedOrDropped ==
    [][io'.in.src = "eleven_labs"
          => /\ (io'.in.msg.kind = "audio" /\ TruthyStr(io'.in.msg.audio_base_64))
                   => io'.out = <<ToTwilio(io'.in.service,
                                     MediaFrame(svc[io'.in.service].stream_sid,
                                                io'.in.msg.audio_base_64))>>
             /\ BadAudio(io'.in.msg)
                   => /\ io'.out = <<>>
                      /\ svc'[io'.in.service].eleven_labs_task = "running"]_vars

\* =============================================================== C11 ====
\* Where setup_connection is while it runs (services.py:276-302).
SetupPcs == {"get_signed_url", "connect", "recv_metadata", "send_config"}

\* The exception the answer a setup step read stands for.
Cause(read) ==
    IF read.src = "eleven_labs" THEN FirstMessageError(read.msg) ELSE read.msg.kind

\* The record create_call made last for the call to number n of agent a.
CallRecord(a, n) ==
    CHOOSE k \in placed :
        /\ k[1] = a /\ k[3] = n
        /\ \A j \in placed : (j[1] = a /\ j[3] = n) => j[2] <= k[2]

\* C11: whenever setup of the Voice-AI link fails (signed URL, connect or
\* handshake), the call record's stage is failed when the error leaves
\* setup_connection, and the error raised is the one that made setup fail.
C11_SetupFailureMarksRecordFailed ==
    [][(hpc \in SetupPcs /\ io'.exc # "none")
          => /\ io'.exc = Cause(io'.in)
             /\ (\E k \in placed :
                    k[1] = svc[nsvc].agent_id /\ k[3] = svc[nsvc].to_number)
                  => store'[CallRecord(svc[nsvc].agent_id,
                                       svc[nsvc].to_number)].stage
                        = CALL_STATUS.call_failed]_vars

\* =============================================================== C12 ====
\* C12: whenever setup of the Voice-AI link fails, both links are closed
\* before the error goes on to the session's caller: the read loop does not
\* go on with that session and the Voice-AI websocket is not left open.
C12_SetupFailureEndsSession ==
    [][(hpc \in SetupPcs /\ io'.exc # "none")
          => /\ hpc' # "loop"
             /\ svc'[nsvc].eleven_labs_ws # "open"]_vars

\* =============================================================== C13 ====
\* C13: on one connection a session is initialised once; a second start
\* event creates no second session, no second Voice-AI link and no second
\* keep_alive task.
C13_OneSessionPerConnection ==
    /\ nsvc <= 1
    /\ Cardinality({s \in 1..MaxServices : svc[s].eleven_labs_ws = "open"}) <= 1
    /\ Cardinality({s \in 1..MaxServices : svc[s].keep_alive # "none"}) <= 1

\* =============================================================== C14 ====
\* C14: if the first message on the Voice-AI link is not a well-formed
\* metadata event with a conversation_id, setup fails: the link does not
\* become Active, no initial config is sent and no dispatch task is started.
C14_BadFirstMessageFailsSetup ==
    [][/\ (hpc = "recv_metadata" /\ io'.in.src = "eleven_labs"
              /\ io'.in.msg.kind # "conversation_initiation_metadata")
            => io'.exc # "none" /\ hpc' # "send_config"
       /\ \A s \in 1..MaxServices :
             svc'[s].conversation_id = None
                 => ~configSent'[s] /\ svc'[s].eleven_labs_task = "none"]_vars

\* =============================================================== C15 ====
\* The stage graph of the data model: initiated -> ringing -> answered ->
\* completed, and the side exits from the three live stages.
Allowed(cur, new) ==
    \/ cur = "initiated" /\ new = "ringing"
    \/ cur = "ringing" /\ new = "answered"
    \/ cur = "answered" /\ new = "completed"
    \/ cur \in {"initiated", "ringing", "answered"}
          /\ new \in {"busy", "no-answer", "failed", "canceled"}

\* C15: a status callback for any of the eight statuses sets the stage of
\* the record it addresses to that status, when the stage graph allows the
\* move from the record's stage (and the store did not fail).
C15_CallbackWritesEveryStatus ==
    [][LET key == PartitionKey(callback'.agent_id, today, callback'.To)
       IN (/\ cbCount' # cbCount
           /\ callback'.status_code = 200
           /\ callback'.store_result \in {"ok", "not_called"}
           /\ key \in DOMAIN store
           /\ Allowed(store[key].stage, callback'.CallStatus))
             => store'[key].stage = callback'.CallStatus]_vars

\* =============================================================== C16 ====
\* C16: reconciliation touches a record only if its conversation id is set;
\* for a record whose conversation_id is still the unset sentinel no analysis
\* is requested and nothing is written.
C16_UnsetRecordsSkipped ==
    [][io'.in.src = "analysis"
          => IsSetId(io'.in.msg.conversation_id)]_vars

\* =============================================================== C17 ====
\* C17: in a reconciliation run a failure on one record (the analysis
\* request or the store update for it) is caught, and the run goes on with
\* the other records: the run does not end with an exception. Stated for
\* the records whose conversation id is set.
C17_BatchSurvivesRecordFailure ==
    [][(/\ recon.pc = "running"
        /\ io'.in.src = "analysis"
        /\ IsSetId(io'.in.msg.conversation_id))
          => recon'.pc # "raised"]_vars

\* =============================================================== C18 ====
\* C18: update_call_criteria_record looks the key up through the index
\* first, and when the index holds no record under the id it fails with
\* NotFound and leaves the store as it is.
C18_NotFoundWhenNotIndexed ==
    [][(io'.in.src = "analysis" /\ IsSetId(io'.in.msg.conversation_id)
            /\ ~io'.in.msg.matched)
          => io'.exc = "NotFound" /\ store' = store]_vars

C20_AtMostOneRecordPerIndexKey ==
    \A id \in ConvIds \cup {"nil"} :
        Cardinality(get_call_by_conversation_id(store, id)) <= 1

\* =============================================================== C21 ====
\* C21: once a record has been created, its created_at_utc timestamp, its
\* prompt and its scheduled time never change, whatever operation runs.
C21_CreationFieldsNeverChange ==
    [][\A k \in DOMAIN store :
          store[k].created_at_utc # <<>>
              => /\ k \in DOMAIN store'
                 /\ store'[k].created_at_utc = store[k].created_at_utc
                 /\ store'[k].prompt = store[k].prompt
                 /\ store'[k].time = store[k].time]_vars

\* =============================================================== C22 ====
\* C22: the payload handle_media sends on the Voice-AI link is the payload
\* of the carrier's media message, character for character.
C22_MediaPayloadForwardedUnchanged ==
    [][\A i \in DOMAIN io'.out :
          (io'.out[i].link = "eleven_labs"
                /\ "user_audio_chunk" \in DOMAIN io'.out[i].frame)
              => io'.out[i].frame.user_audio_chunk = io'.in.msg.payload]_vars

\* =============================================================== C23 ====
\* cleanup() closes the Voice-AI websocket of service s in this step.
ClosedByCleanup(s) ==
    /\ cl' # cl
    /\ svc[s].eleven_labs_ws = "open"
    /\ svc'[s].eleven_labs_ws # "open"

\* C23: teardown cancels the dispatch task and the keep_alive task and has
\* seen them end before it closes the Voice-AI websocket, and it closes the
\* Voice-AI websocket before the carrier's.
C23_TasksCancelledBeforeLinksClose ==
    [][/\ \A s \in 1..MaxServices :
             ClosedByCleanup(s)
                 => /\ svc[s].eleven_labs_task \notin {"running"}
                    /\ svc[s].keep_alive \notin {"sleeping", "spinning"}
       /\ (tel = "open" /\ tel' = "closed" /\ nsvc > 0)
             => svc[nsvc].eleven_labs_ws # "open"]_vars

\* =============================================================== C24 ====
\* C24: keep_alive sends a ping only while the Voice-AI websocket is open,
\* and when it finds the websocket closed (or a send fails) the task ends:
\* it does not go on running on a closed link.
C24_KeepAliveStopsWhenLinkCloses ==
    [][\A s \in 1..MaxServices :
          /\ (\E i \in DOMAIN io'.out :
                  io'.out[i] = ToElevenLabs(s, KeepAlivePing))
                => svc[s].eleven_labs_ws = "open"
          /\ (svc[s].keep_alive = "sleeping" /\ svc'[s].keep_alive # "sleeping")
                => svc'[s].keep_alive \in {"finished", "cancelled"}]_vars

\* =============================================================== C25 ====
\* C25: the read loop, the dispatch loop and keep_alive do not block each
\* other: whenever the read loop waits with a media message of the carrier
\* in its socket, it can take the message, whatever the dispatch task and
\* the keep_alive task are doing.
C25_ReadLoopNeverBlocked ==
    (hpc = "loop" /\ inbox # <<>> /\ Head(inbox).event = "media")
        => ENABLED HandleMedia

\* =============================================================== C26 ====
\* C26: when outbound_media_stream has ended (the read loop is over and
\* cleanup has run), every Voice-AI websocket the connection's sessions
\* opened is closed and none of their dispatch and keep_alive tasks is still
\* running, with or without a conversation id.
C26_ResourcesReleasedAtEnd ==
    hpc \in {"returned", "raised"}
        => \A s \in 1..nsvc :
              /\ svc[s].eleven_labs_ws # "open"
              /\ svc[s].eleven_labs_task # "running"
              /\ svc[s].keep_alive \notin {"sleeping", "spinning"}

\* =============================================================== C27 ====
\* The Voice-AI service has closed the websocket of the running session:
\* the session had its conversation id, and teardown has not begun.
ClosedByRemote ==
    /\ nsvc > 0
    /\ svc[nsvc].conversation_id # None
    /\ svc[nsvc].eleven_labs_ws \in {"closed", "aborted"}
    /\ hpc = "loop"
    /\ cl[1] = "idle"

\* C27: when the Voice-AI service closes the connection of an active
\* session, the session is torn down in the end: cleanup runs and
\* outbound_media_stream ends, whether the carrier sends anything or not.
C27_RemoteCloseLeadsToTeardown ==
    ClosedByRemote ~> hpc \in {"returned", "raised"}

\* =============================================================== C28 ====
\* C28: a message of the carrier that is not parseable, is parseable but
\* has not the shape of the envelope, or lacks a required field is logged
\* and passed over: the read loop goes on with the next message and the
\* session is not ended by it.
C28_MalformedCarrierMessageSwallowed ==
    [][(io'.in.src = "twilio" /\ io'.in.msg \in OtherMessages)
          => /\ hpc' = "loop"
             /\ hexc' = hexc]_vars

\* =============================================================== C29 ====
\* The kinds of message of the Voice-AI service the claim is about: a frame
\* that is not parseable as the envelope (no JSON, JSON that is no object,
\* no type), a type without a handler, and an error event.
DroppedKinds == {"not_json", "not_object", "no_type", "unknown_type", "error"}

\* C29: in the dispatch loop a malformed message, a message with an
\* unrecognised type and an error event are dropped or logged: the loop
\* goes on reading and the link stays as it is.
C29_DispatchLoopSurvivesBadMessage ==
    [][\A s \in 1..MaxServices :
          (/\ io'.in = FromElevenLabs(s, io'.in.msg)
           /\ svc[s].eleven_labs_task = "running"
           /\ io'.in.msg.kind \in DroppedKinds)
              => /\ svc'[s].eleven_labs_task = "running"
                 /\ svc'[s].eleven_labs_ws = svc[s].eleven_labs_ws
                 /\ io'.out = <<>>]_vars

\* =============================================================== C30 ====
\* A record create_ai_call_item wrote: only it sets created_at_utc.
Created(item) == item.created_at_utc # <<>>

\* C30: update_ai_call_item never adds a record: every record of the store
\* was written by create_ai_call_item, and an update for a call goes to the
\* key create_ai_call_item computed for it. Stated for the steps after
\* create_call has placed a call.
C30_UpdateNeverAddsRecord ==
    [][placed # {}
          => \A k \in DOMAIN store' :
                k \in DOMAIN store \/ Created(store'[k])]_vars

\* =============================================================== C31 ====
\* C31: cleanup() returns without raising, whatever the dispatch task was
\* doing when it ran (reading, finished, or ended with an error): the
\* finally block of outbound_media_stream always finishes teardown.
C31_CleanupNeverRaises ==
    [][\A c \in Callers :
          (cl[c] = "await_task" /\ cl'[c] # "await_task") => cl'[c] = "done"]_vars

====
